---- MODULE Spec2Model ----
(***************************************************************************)
(* Model of null.Timestamp (src/timestamp.go): a nullable time.Time that   *)
(* is stored in SQL as a time value and travels on the JSON and text wire  *)
(* as the decimal number of seconds since the Unix epoch.                  *)
(*                                                                         *)
(* Byte slices and strings are sequences of one-character strings.  int64  *)
(* is scaled to IntBits bits, two's complement; every arithmetic step that *)
(* Go performs in int64 is wrapped to that width.                          *)
(***************************************************************************)
EXTENDS Integers, Sequences, FiniteSets, TLC

\* ------------------------------------------------------------------ bounds
\* width of the machine integer standing for int64
IntBits == 4
\* largest value of the sub-second part of an instant (nanoseconds, scaled)
MaxNsec == 1
\* seconds between the internal epoch (year 1) and the Unix epoch, scaled
UnixToInternal == 5

RECURSIVE Pow2(_)
Pow2(n) == IF n = 0 THEN 1 ELSE 2 * Pow2(n - 1)

MinInt64 == -Pow2(IntBits - 1)
MaxInt64 == Pow2(IntBits - 1) - 1
Int64 == MinInt64..MaxInt64

\* two's complement wrap-around of Go's int64 arithmetic
Wrap(x) == ((x - MinInt64) % Pow2(IntBits)) + MinInt64

\* ------------------------------------------------------------------ time
\* time.Time without a monotonic reading: seconds since the internal epoch,
\* the sub-second part, and the location pointer (nil is UTC).
Locs == {"UTC", "Local"}
Times == [sec : Int64, nsec : 0..MaxNsec, loc : Locs]

\* time.Time{} : the zero instant
ZeroTime == [sec |-> 0, nsec |-> 0, loc |-> "UTC"]

\* time.Unix(sec, 0)
timeUnix(v) == [sec |-> Wrap(v + UnixToInternal), nsec |-> 0, loc |-> "Local"]

\* Time.Unix()
Unix(tm) == Wrap(tm.sec - UnixToInternal)

\* Time.IsZero: the instant is January 1, year 1, 00:00:00 UTC
TimeIsZero(tm) == tm.sec = 0 /\ tm.nsec = 0

\* Time.Equal: the same instant, whatever the location
TimeEqual(a, b) == a.sec = b.sec /\ a.nsec = b.nsec

\* the == operator on time.Time: every field, the location pointer included
TimeIdentical(a, b) == a.sec = b.sec /\ a.nsec = b.nsec /\ a.loc = b.loc

\* ------------------------------------------------------------------ strconv
DigitChars == <<"0", "1", "2", "3", "4", "5", "6", "7", "8", "9">>

IsDigit(c) == \E i \in 1..10 : DigitChars[i] = c

\* value of a digit or letter in strconv.ParseUint; 99 for any other byte
DigitVal(c) ==
  IF IsDigit(c) THEN (CHOOSE i \in 1..10 : DigitChars[i] = c) - 1
  ELSE IF c \in {"a", "A"} THEN 10
  ELSE IF c \in {"b", "B"} THEN 11
  ELSE IF c \in {"c", "C"} THEN 12
  ELSE IF c \in {"d", "D"} THEN 13
  ELSE IF c \in {"e", "E"} THEN 14
  ELSE IF c \in {"f", "F"} THEN 15
  ELSE IF c \in {"h", "H"} THEN 17
  ELSE IF c \in {"l", "L"} THEN 21
  ELSE IF c \in {"n", "N"} THEN 23
  ELSE IF c \in {"o", "O"} THEN 24
  ELSE IF c \in {"r", "R"} THEN 27
  ELSE IF c \in {"t", "T"} THEN 29
  ELSE IF c \in {"u", "U"} THEN 30
  ELSE IF c \in {"w", "W"} THEN 32
  ELSE IF c \in {"x", "X"} THEN 33
  ELSE 99

RECURSIVE formatBits(_)
formatBits(u) ==
  IF u < 10 THEN <<DigitChars[u + 1]>>
  ELSE formatBits(u \div 10) \o <<DigitChars[(u % 10) + 1]>>

\* strconv.FormatInt(i, 10)
FormatInt(i) == IF i < 0 THEN <<"-">> \o formatBits(-i) ELSE formatBits(i)

Tail2(s) == SubSeq(s, 3, Len(s))

\* strconv.underscoreOK, the loop from position i with the last class seen
RECURSIVE underscoreLoop(_, _, _, _)
underscoreLoop(s, i, saw, hex) ==
  IF i > Len(s) THEN saw # "_"
  ELSE IF IsDigit(s[i]) \/ (hex /\ DigitVal(s[i]) \in 10..15)
       THEN underscoreLoop(s, i + 1, "0", hex)
  ELSE IF s[i] = "_"
       THEN IF saw # "0" THEN FALSE ELSE underscoreLoop(s, i + 1, "_", hex)
  ELSE IF saw = "_" THEN FALSE
  ELSE underscoreLoop(s, i + 1, "!", hex)

underscoreOK(s0) ==
  LET s == IF Len(s0) >= 1 /\ s0[1] \in {"-", "+"} THEN Tail(s0) ELSE s0
      pre == Len(s) >= 2 /\ s[1] = "0" /\ s[2] \in {"b", "B", "o", "O", "x", "X"}
  IN  IF pre THEN underscoreLoop(s, 3, "0", s[2] \in {"x", "X"})
      ELSE underscoreLoop(s, 1, "^", FALSE)

\* the digit loop of strconv.ParseUint: n so far, position i
RECURSIVE parseUintLoop(_, _, _, _, _, _)
parseUintLoop(s, i, base, base0, n, underscores) ==
  IF i > Len(s) THEN [n |-> n, err |-> "nil", underscores |-> underscores]
  ELSE IF s[i] = "_" /\ base0
       THEN parseUintLoop(s, i + 1, base, base0, n, TRUE)
  ELSE IF DigitVal(s[i]) = 99 \/ DigitVal(s[i]) >= base
       THEN [n |-> 0, err |-> "ErrSyntax", underscores |-> underscores]
  ELSE IF n * base + DigitVal(s[i]) > Pow2(IntBits) - 1
       THEN [n |-> Pow2(IntBits) - 1, err |-> "ErrRange", underscores |-> underscores]
  ELSE parseUintLoop(s, i + 1, base, base0, n * base + DigitVal(s[i]), underscores)

\* strconv.ParseUint(s, base, 64), base 0 meaning "detect the prefix"
ParseUint(s, base) ==
  IF s = <<>> THEN [n |-> 0, err |-> "ErrSyntax"]
  ELSE
    LET base0 == base = 0
        pfx == base0 /\ s[1] = "0"
        b == IF ~pfx THEN (IF base0 THEN 10 ELSE base)
             ELSE IF Len(s) >= 3 /\ s[2] \in {"b", "B"} THEN 2
             ELSE IF Len(s) >= 3 /\ s[2] \in {"o", "O"} THEN 8
             ELSE IF Len(s) >= 3 /\ s[2] \in {"x", "X"} THEN 16
             ELSE 8
        rest == IF ~pfx THEN s
                ELSE IF Len(s) >= 3 /\ s[2] \in {"b", "B", "o", "O", "x", "X"}
                     THEN Tail2(s)
                ELSE Tail(s)
        r == parseUintLoop(rest, 1, b, base0, 0, FALSE)
    IN  IF r.err # "nil" THEN [n |-> r.n, err |-> r.err]
        ELSE IF r.underscores /\ ~underscoreOK(s) THEN [n |-> 0, err |-> "ErrSyntax"]
        ELSE [n |-> r.n, err |-> "nil"]

\* strconv.ParseInt(s, base, 64)
ParseInt(s, base) ==
  IF s = <<>> THEN [n |-> 0, err |-> "ErrSyntax"]
  ELSE
    LET neg == s[1] = "-"
        body == IF s[1] \in {"+", "-"} THEN Tail(s) ELSE s
        u == ParseUint(body, base)
        cutoff == Pow2(IntBits - 1)
    IN  IF u.err # "nil" /\ u.err # "ErrRange" THEN [n |-> 0, err |-> u.err]
        ELSE IF ~neg /\ u.n >= cutoff THEN [n |-> cutoff - 1, err |-> "ErrRange"]
        ELSE IF neg /\ u.n > cutoff THEN [n |-> -cutoff, err |-> "ErrRange"]
        ELSE [n |-> IF neg THEN -u.n ELSE u.n, err |-> "nil"]

\* ------------------------------------------------------------------ encoding/json
\* byte at position i, "" past the end
At(s, i) == IF i >= 1 /\ i <= Len(s) THEN s[i] ELSE ""

IsSpace(c) == c \in {" ", "\t", "\n", "\r"}

RECURSIVE skipWS(_, _)
skipWS(s, i) == IF IsSpace(At(s, i)) THEN skipWS(s, i + 1) ELSE i

RECURSIVE skipDigits(_, _)
skipDigits(s, i) == IF IsDigit(At(s, i)) THEN skipDigits(s, i + 1) ELSE i

\* the scanner's number states: position after the number starting at i, 0 on
\* a syntax error
scanNumber(s, i) ==
  LET i1 == IF At(s, i) = "-" THEN i + 1 ELSE i
      i2 == IF At(s, i1) = "0" THEN i1 + 1
            ELSE IF IsDigit(At(s, i1)) THEN skipDigits(s, i1)
            ELSE 0
      i3 == IF i2 = 0 THEN 0
            ELSE IF At(s, i2) # "." THEN i2
            ELSE IF IsDigit(At(s, i2 + 1)) THEN skipDigits(s, i2 + 1)
            ELSE 0
      e1 == IF At(s, i3 + 1) \in {"+", "-"} THEN i3 + 2 ELSE i3 + 1
  IN  IF i3 = 0 THEN 0
      ELSE IF At(s, i3) \notin {"e", "E"} THEN i3
      ELSE IF IsDigit(At(s, e1)) THEN skipDigits(s, e1)
      ELSE 0

\* the scanner's string states (escapes other than \u): position after the
\* closing quote of the string whose opening quote is at i - 1, 0 on error
RECURSIVE scanStringBody(_, _)
scanStringBody(s, i) ==
  IF i > Len(s) THEN 0
  ELSE IF s[i] = "\"" THEN i + 1
  ELSE IF s[i] = "\\"
       THEN IF At(s, i + 1) \in {"\"", "\\", "/", "b", "f", "n", "r", "t"}
            THEN scanStringBody(s, i + 2)
            ELSE 0
  ELSE IF s[i] \in {"\t", "\n", "\r"} THEN 0
  ELSE scanStringBody(s, i + 1)

\* a literal word at position i
scanWord(s, i, w) ==
  IF i + Len(w) - 1 <= Len(s) /\ SubSeq(s, i, i + Len(w) - 1) = w
  THEN i + Len(w) ELSE 0

RECURSIVE scanValue(_, _)
RECURSIVE scanMembers(_, _)
RECURSIVE scanElements(_, _)

\* one JSON value starting at i: position after it, 0 on a syntax error
scanValue(s, i) ==
  LET c == At(s, i)
  IN  IF c = "{"
      THEN IF At(s, skipWS(s, i + 1)) = "}" THEN skipWS(s, i + 1) + 1
           ELSE scanMembers(s, skipWS(s, i + 1))
      ELSE IF c = "["
      THEN IF At(s, skipWS(s, i + 1)) = "]" THEN skipWS(s, i + 1) + 1
           ELSE scanElements(s, skipWS(s, i + 1))
      ELSE IF c = "\"" THEN scanStringBody(s, i + 1)
      ELSE IF c = "-" \/ IsDigit(c) THEN scanNumber(s, i)
      ELSE IF c = "t" THEN scanWord(s, i, <<"t", "r", "u", "e">>)
      ELSE IF c = "f" THEN scanWord(s, i, <<"f", "a", "l", "s", "e">>)
      ELSE IF c = "n" THEN scanWord(s, i, <<"n", "u", "l", "l">>)
      ELSE 0

\* key : value pairs up to the closing brace, i at the first key
scanMembers(s, i) ==
  LET k == IF At(s, i) = "\"" THEN scanStringBody(s, i + 1) ELSE 0
      c == IF k = 0 THEN 0 ELSE skipWS(s, k)
      v == IF c = 0 \/ At(s, c) # ":" THEN 0 ELSE scanValue(s, skipWS(s, c + 1))
      e == IF v = 0 THEN 0 ELSE skipWS(s, v)
  IN  IF e = 0 THEN 0
      ELSE IF At(s, e) = "}" THEN e + 1
      ELSE IF At(s, e) = "," THEN scanMembers(s, skipWS(s, e + 1))
      ELSE 0

\* array elements up to the closing bracket, i at the first element
scanElements(s, i) ==
  LET v == scanValue(s, i)
      e == IF v = 0 THEN 0 ELSE skipWS(s, v)
  IN  IF e = 0 THEN 0
      ELSE IF At(s, e) = "]" THEN e + 1
      ELSE IF At(s, e) = "," THEN scanElements(s, skipWS(s, e + 1))
      ELSE 0

\* json.checkValid: exactly one value, surrounded by optional white space
checkValid(data) ==
  LET e == scanValue(data, skipWS(data, 1))
  IN  e # 0 /\ skipWS(data, e) = Len(data) + 1

\* json.Unmarshal(data, &v) with v an int64 that starts at 0: the value
\* stored in v and the error.  JSON null stores nothing and is no error.
jsonUnmarshalInt64(data) ==
  IF ~checkValid(data) THEN [v |-> 0, err |-> "SyntaxError"]
  ELSE
    LET i == skipWS(data, 1)
        c == data[i]
        item == SubSeq(data, i, scanValue(data, i) - 1)
        r == ParseInt(item, 10)
    IN  IF c = "n" THEN [v |-> 0, err |-> "nil"]
        ELSE IF c = "-" \/ IsDigit(c)
             THEN IF r.err # "nil" THEN [v |-> 0, err |-> "UnmarshalTypeError"]
                  ELSE [v |-> r.n, err |-> "nil"]
        ELSE [v |-> 0, err |-> "UnmarshalTypeError"]

\* ------------------------------------------------------------------ Timestamp
\* the literal null that UnmarshalJSON compares its input with
nullBytes == <<"n", "u", "l", "l">>

\* a nil driver.Value, a nil error
Nil == "nil"

Timestamps == [Time : Times, Valid : BOOLEAN]

NewTimestamp(tm, valid) == [Time |-> tm, Valid |-> valid]

TimestampFrom(tm) == NewTimestamp(tm, TRUE)

\* a *time.Time: the nil pointer, or a pointer to a time
NilPtr == [tm |-> ZeroTime, isNil |-> TRUE]
PtrTo(tm) == [tm |-> tm, isNil |-> FALSE]

TimestampFromPtr(p) ==
  IF p.isNil THEN NewTimestamp(ZeroTime, FALSE) ELSE NewTimestamp(p.tm, TRUE)

\* driver.Valuer: the value and the error
Value(t) ==
  IF ~t.Valid THEN [isNil |-> TRUE, tm |-> ZeroTime, err |-> Nil]
  ELSE [isNil |-> FALSE, tm |-> t.Time, err |-> Nil]

ValueOrZero(t) == IF ~t.Valid THEN ZeroTime ELSE t.Time

\* MarshalJSON writing the seconds of the internal epoch instead of Time.Unix()
MarshalJSON_InternalEpoch(t) ==
  IF ~t.Valid THEN [bytes |-> <<"n", "u", "l", "l">>, err |-> Nil]
  ELSE [bytes |-> FormatInt(t.Time.sec), err |-> Nil]

MarshalJSON(t) ==
  IF ~t.Valid THEN [bytes |-> <<"n", "u", "l", "l">>, err |-> Nil]
  ELSE [bytes |-> FormatInt(Unix(t.Time)), err |-> Nil]

\* UnmarshalJSON that stores the time and forgets t.Valid = true
UnmarshalJSON_ValidNotSet(t, data) ==
  IF data = nullBytes THEN [t |-> [t EXCEPT !.Valid = FALSE], err |-> Nil]
  ELSE
    LET r == jsonUnmarshalInt64(data)
    IN  IF r.err # Nil THEN [t |-> t, err |-> r.err]
        ELSE [t |-> [t EXCEPT !.Time = timeUnix(r.v)], err |-> Nil]

\* the receiver after the call, and the error
UnmarshalJSON(t, data) ==
  IF data = nullBytes THEN [t |-> [t EXCEPT !.Valid = FALSE], err |-> Nil]
  ELSE
    LET r == jsonUnmarshalInt64(data)
    IN  IF r.err # Nil THEN [t |-> t, err |-> r.err]
        ELSE [t |-> [Time |-> timeUnix(r.v), Valid |-> TRUE], err |-> Nil]

\* MarshalText writing null for an invalid Timestamp, as MarshalJSON does
MarshalText_EmitsNull(t) ==
  IF ~t.Valid THEN [bytes |-> <<"n", "u", "l", "l">>, err |-> Nil]
  ELSE [bytes |-> FormatInt(Unix(t.Time)), err |-> Nil]

MarshalText(t) ==
  IF ~t.Valid THEN [bytes |-> <<>>, err |-> Nil]
  ELSE [bytes |-> FormatInt(Unix(t.Time)), err |-> Nil]

\* UnmarshalText without the backward-compatible "null"
UnmarshalText_NoNullWord(t, text) ==
  IF text = <<>>
  THEN [t |-> [t EXCEPT !.Valid = FALSE], err |-> Nil]
  ELSE
    LET r == ParseInt(text, 0)
    IN  IF r.err # Nil THEN [t |-> t, err |-> r.err]
        ELSE [t |-> [Time |-> timeUnix(r.n), Valid |-> TRUE], err |-> Nil]

UnmarshalText(t, text) ==
  IF text = <<>> \/ text = <<"n", "u", "l", "l">>
  THEN [t |-> [t EXCEPT !.Valid = FALSE], err |-> Nil]
  ELSE
    LET r == ParseInt(text, 0)
    IN  IF r.err # Nil THEN [t |-> t, err |-> r.err]
        ELSE [t |-> [Time |-> timeUnix(r.n), Valid |-> TRUE], err |-> Nil]

SetValid(t, v) == [Time |-> v, Valid |-> TRUE]

Ptr(t) == IF ~t.Valid THEN NilPtr ELSE PtrTo(t.Time)

\* IsZero looking at the instant instead of the flag
IsZero_OfInstant(t) == TimeIsZero(t.Time)

IsZero(t) == ~t.Valid

\* Equal comparing the instants of two null Timestamps too
Equal_NoNullShortcut(t, other) ==
  t.Valid = other.Valid /\ TimeEqual(t.Time, other.Time)

Equal(t, other) ==
  t.Valid = other.Valid /\ (~t.Valid \/ TimeEqual(t.Time, other.Time))

\* ExactEqual that does not compare the Valid flags
ExactEqual_IgnoresValid(t, other) == TimeIdentical(t.Time, other.Time)

ExactEqual(t, other) ==
  t.Valid = other.Valid /\ (~t.Valid \/ TimeIdentical(t.Time, other.Time))

\* The kinds of value a database driver hands to Scan
ForeignKinds == {"int64", "float64", "bool", "bytes", "string"}

\* Scan that reports the error before it touches the receiver
Scan_ErrorFirst(t, kind, tm) ==
  IF kind = Nil THEN [t |-> [Time |-> ZeroTime, Valid |-> FALSE], err |-> Nil]
  ELSE IF kind = "time" THEN [t |-> [Time |-> tm, Valid |-> TRUE], err |-> Nil]
  ELSE [t |-> t, err |-> "unsupported Scan"]

\* sql.NullTime.Scan, promoted to Timestamp by the embedding: nil clears both
\* fields; otherwise Valid is set before convertAssign runs, and convertAssign
\* stores into *time.Time only a time.Time.
Scan(t, kind, tm) ==
  IF kind = Nil THEN [t |-> [Time |-> ZeroTime, Valid |-> FALSE], err |-> Nil]
  ELSE IF kind = "time" THEN [t |-> [Time |-> tm, Valid |-> TRUE], err |-> Nil]
  ELSE [t |-> [t EXCEPT !.Valid = TRUE], err |-> "unsupported Scan"]

\* ------------------------------------------------------------------ inputs
\* the decimal text of every number of the integer type
DecimalTexts == {FormatInt(n) : n \in Int64}

\* numbers just outside the integer type
OutOfRangeTexts == {FormatInt(MaxInt64 + 1), FormatInt(MinInt64 - 1)}

\* {"Time":1,"Valid":true}
timestampObject == <<"{", "\"", "T", "i", "m", "e", "\"", ":", "1", ",", "\"", "V", "a", "l", "i", "d", "\"", ":", "t", "r", "u", "e", "}">>

\* inputs of UnmarshalJSON that are no number and not the literal null:
\* objects, arrays, strings, a fraction, malformed tokens
BadJSONInputs == {
  timestampObject,
  <<"{", "}">>,
  <<"[", "]">>,
  <<"[", "1", "]">>,
  <<"\"", "1", "\"">>,
  <<"1", ".", "5">>,
  <<"1", "e", "1">>,
  <<"0", "1">>,
  <<"+", "1">>,
  <<"t", "r", "u", "e">>,
  <<":", ")">>,
  <<"n", "u", "l">>,
  <<>>,
  <<"-">>,
  <<"0", "x", "1">>,
  <<"h", "e", "l", "l", "o", " ", "w", "o", "r", "l", "d">> }

\* JSON inputs that are not the decimal text of a number, yet decode
OddJSONInputs == {
  <<"-", "0">>,
  <<" ", "1">>,
  <<"1", " ">>,
  <<" ", "n", "u", "l", "l">> }

JSONInputs ==
  DecimalTexts \cup OutOfRangeTexts \cup {nullBytes} \cup BadJSONInputs \cup OddJSONInputs

\* inputs of UnmarshalText that strconv.ParseInt rejects
BadTextInputs == {
  <<"h", "e", "l", "l", "o", " ", "w", "o", "r", "l", "d">>,
  <<"0", "8">>,
  <<"_", "1">>,
  <<"1", "_", "_", "0">>,
  <<"1", ".", "5">>,
  <<" ", "1">>,
  <<"-">>,
  <<"N", "U", "L", "L">>,
  <<"0", "x">>,
  <<"n", "u", "l">>,
  <<"0", "b", "2">> }

\* text inputs in another notation than FormatInt's that ParseInt accepts
OddTextInputs == {
  <<"0", "x", "1">>,
  <<"0", "b", "1">>,
  <<"0", "o", "7">>,
  <<"0", "7">>,
  <<"+", "1">>,
  <<"0", "_", "7">>,
  <<"-", "0">> }

TextInputs ==
  DecimalTexts \cup OutOfRangeTexts \cup {<<>>, nullBytes} \cup BadTextInputs \cup OddTextInputs

\* ------------------------------------------------------------------ state
VARIABLES
  t,      \* the Timestamp the methods are called on
  op,     \* the last call
  arg,    \* the argument of the last call
  err,    \* the error the last call returned
  ret     \* the value the last call returned

vars == <<t, op, arg, err, ret>>

\* the argument of a call: its kind, and the bytes or the time it carries
KindArg(kind) == [tm |-> ZeroTime, data |-> <<>>, valid |-> FALSE, kind |-> kind]
TimeArg(tm, valid) == [tm |-> tm, data |-> <<>>, valid |-> valid, kind |-> "time"]
BytesArg(data) == [tm |-> ZeroTime, data |-> data, valid |-> FALSE, kind |-> "bytes"]

\* the result of a call: a time or nil, a boolean, or bytes
TimeRet(isNil, tm) == [tm |-> tm, b |-> FALSE, isNil |-> isNil, bytes |-> <<>>]
BoolRet(b) == [tm |-> ZeroTime, b |-> b, isNil |-> FALSE, bytes |-> <<>>]
BytesRet(bytes) == [tm |-> ZeroTime, b |-> FALSE, isNil |-> FALSE, bytes |-> bytes]
NoRet(name) == TimeRet(TRUE, ZeroTime)

\* the state after a constructor or a pointer-receiver method returned r
Returned(name, a, r) ==
  /\ t = r.t
  /\ op = name
  /\ arg = a
  /\ err = r.err
  /\ ret = NoRet(name)

\* var ti Timestamp
InitZeroValue ==
  Returned("var", KindArg("none"), [t |-> [Time |-> ZeroTime, Valid |-> FALSE], err |-> Nil])

InitNewTimestamp ==
  \E tm \in Times, valid \in BOOLEAN :
    Returned("NewTimestamp", TimeArg(tm, valid), [t |-> NewTimestamp(tm, valid), err |-> Nil])

InitTimestampFrom ==
  \E tm \in Times :
    Returned("TimestampFrom", TimeArg(tm, TRUE), [t |-> TimestampFrom(tm), err |-> Nil])

InitTimestampFromPtr ==
  \/ Returned("TimestampFromPtr", KindArg(Nil),
              [t |-> TimestampFromPtr(NilPtr), err |-> Nil])
  \/ \E tm \in Times :
       Returned("TimestampFromPtr", TimeArg(tm, TRUE),
                [t |-> TimestampFromPtr(PtrTo(tm)), err |-> Nil])

\* a Timestamp as the program obtains one: the zero value or a constructor's result
Init == InitZeroValue \/ InitNewTimestamp \/ InitTimestampFrom \/ InitTimestampFromPtr

\* a call on the pointer receiver
Mutate(name, a, r) ==
  /\ t' = r.t
  /\ op' = name
  /\ arg' = a
  /\ err' = r.err
  /\ ret' = NoRet(name)

\* a call on a value receiver
Observe(name, a, e, r) ==
  /\ t' = t
  /\ op' = name
  /\ arg' = a
  /\ err' = e
  /\ ret' = r

CallSetValid ==
  \E tm \in Times :
    Mutate("SetValid", TimeArg(tm, TRUE), [t |-> SetValid(t, tm), err |-> Nil])

CallScan ==
  \/ Mutate("Scan", KindArg(Nil), Scan(t, Nil, ZeroTime))
  \/ \E tm \in Times : Mutate("Scan", TimeArg(tm, TRUE), Scan(t, "time", tm))
  \/ \E k \in ForeignKinds : Mutate("Scan", KindArg(k), Scan(t, k, ZeroTime))

CallUnmarshalJSON ==
  \E data \in JSONInputs : Mutate("UnmarshalJSON", BytesArg(data), UnmarshalJSON(t, data))

CallUnmarshalText ==
  \E text \in TextInputs : Mutate("UnmarshalText", BytesArg(text), UnmarshalText(t, text))

CallValue ==
  Observe("Value", KindArg("none"), Value(t).err, TimeRet(Value(t).isNil, Value(t).tm))

CallValueOrZero ==
  Observe("ValueOrZero", KindArg("none"), Nil, TimeRet(FALSE, ValueOrZero(t)))

CallMarshalJSON ==
  Observe("MarshalJSON", KindArg("none"), MarshalJSON(t).err, BytesRet(MarshalJSON(t).bytes))

CallMarshalText ==
  Observe("MarshalText", KindArg("none"), MarshalText(t).err, BytesRet(MarshalText(t).bytes))

CallPtr ==
  Observe("Ptr", KindArg("none"), Nil, TimeRet(Ptr(t).isNil, Ptr(t).tm))

CallIsZero ==
  Observe("IsZero", KindArg("none"), Nil, BoolRet(IsZero(t)))

Next ==
  \/ CallSetValid
  \/ CallScan
  \/ CallUnmarshalJSON
  \/ CallUnmarshalText
  \/ CallValue
  \/ CallValueOrZero
  \/ CallMarshalJSON
  \/ CallMarshalText
  \/ CallPtr
  \/ CallIsZero

Spec == Init /\ [][Next]_vars

\* ------------------------------------------------------------------ equality
\* The two predicates are pure: the receiver and the argument are drawn from
\* every pair of Timestamps, and the calls are applied to the pair.

\* the Timestamp passed to Equal and ExactEqual
Other == [Time |-> arg.tm, Valid |-> arg.valid]

InitPair ==
  \E a \in Timestamps, b \in Timestamps :
    Returned("pair", TimeArg(b.Time, b.Valid), [t |-> a, err |-> Nil])

CallEqual ==
  Observe("Equal", arg, Nil, BoolRet(Equal(t, Other)))

CallExactEqual ==
  Observe("ExactEqual", arg, Nil, BoolRet(ExactEqual(t, Other)))

NextPair == CallEqual \/ CallExactEqual

SpecPair == InitPair /\ [][NextPair]_vars

\* ------------------------------------------------------------------ claims
NullTexts == {<<>>, nullBytes}

\* the same absolute point in time: equal seconds since the Unix epoch and
\* equal sub-second parts, whatever the location
SameInstant(a, b) == Unix(a) = Unix(b) /\ a.nsec = b.nsec

\* C1: after UnmarshalJSON of an input that is neither the literal null nor an
\* integer of the integer type (object, array, string, fraction, malformed or
\* out-of-range token), an error is returned and the receiver is invalid.
C1_FailedJSONLeavesInvalid ==
  op = "UnmarshalJSON" /\ arg.data \in BadJSONInputs \cup OutOfRangeTexts
    => err # Nil /\ ~t.Valid

\* C2: after UnmarshalText of an input that is not empty, not "null" and not
\* parseable as an integer, an error is returned and the receiver is invalid.
C2_FailedTextLeavesInvalid ==
  op = "UnmarshalText" /\ arg.data \in BadTextInputs \cup OutOfRangeTexts
    => err # Nil /\ ~t.Valid

\* C3 as stated: after Scan of a value that is neither nil nor a time, an
\* error is returned and the Timestamp is invalid.
C3_FailedScanLeavesInvalid ==
  op = "Scan" /\ arg.kind \in ForeignKinds => err # Nil /\ ~t.Valid

\* C3 as amended: Scan of a value that is neither nil nor a time returns an
\* error, leaves Valid true whatever it was before, and leaves Time as it was.
C3_FailedScanSetsValid ==
  [][op' = "Scan" /\ arg'.kind \in ForeignKinds
       => err' # Nil /\ t'.Valid /\ t'.Time = t.Time]_vars

\* a zero-value Timestamp that a failed Scan has made valid
C3_Witness ==
  op = "Scan" /\ arg.kind = "int64" /\ err # Nil /\ t.Valid /\ t.Time = ZeroTime

\* C4 as stated: after decoding a null marker the call has succeeded and the
\* receiver is invalid and holds the zero instant.
C4_NullDecodeResetsTime ==
  \/ op = "UnmarshalJSON" /\ arg.data = nullBytes
  \/ op = "UnmarshalText" /\ arg.data \in NullTexts
  => err = Nil /\ ~t.Valid /\ TimeIsZero(t.Time)

\* C4 as amended: decoding a null marker succeeds, clears Valid and leaves the
\* Time field as it was; ValueOrZero then yields the zero instant.
C4_NullDecodeClearsValid ==
  [][(\/ op' = "UnmarshalJSON" /\ arg'.data = nullBytes
      \/ op' = "UnmarshalText" /\ arg'.data \in NullTexts)
       => /\ err' = Nil
          /\ ~t'.Valid
          /\ t'.Time = t.Time
          /\ TimeIsZero(ValueOrZero(t'))]_vars

\* a Timestamp that decoded the word null and still holds a non-zero instant
C4_Witness ==
  op = "UnmarshalText" /\ arg.data = nullBytes /\ err = Nil
    /\ ~t.Valid /\ ~TimeIsZero(t.Time)

\* C5: for every instant i of whole seconds, UnmarshalJSON of the bytes of
\* MarshalJSON(From(i)) succeeds and leaves a Timestamp Equal to From(i), and
\* so does UnmarshalText of the bytes of MarshalText(From(i)).
C5_RoundTrip ==
  /\ op = "UnmarshalJSON" =>
       \A i \in Times :
         i.nsec = 0 /\ arg.data = MarshalJSON(TimestampFrom(i)).bytes
           => MarshalJSON(TimestampFrom(i)).err = Nil /\ err = Nil
                /\ Equal(t, TimestampFrom(i))
  /\ op = "UnmarshalText" =>
       \A i \in Times :
         i.nsec = 0 /\ arg.data = MarshalText(TimestampFrom(i)).bytes
           => MarshalText(TimestampFrom(i)).err = Nil /\ err = Nil
                /\ Equal(t, TimestampFrom(i))

\* the text of an instant before the Unix epoch, decoded from the text wire
C5_Witness ==
  op = "UnmarshalText" /\ arg.data = MarshalText(TimestampFrom(timeUnix(-2))).bytes
    /\ err = Nil /\ t.Valid /\ Unix(t.Time) = -2

\* C6: Equal is true iff the Valid flags agree and, when both are valid, the
\* instants are the same point in time; ExactEqual is true iff the Valid flags
\* agree and, when both are valid, the times are identical, location included.
\* Same instant in different locations: Equal, not ExactEqual.  One valid, one
\* not: neither.  Both invalid: both, whatever the Time fields hold.
C6_EqualSemantics ==
  /\ op = "Equal" =>
       /\ ret.b = (/\ t.Valid = Other.Valid
                   /\ (t.Valid /\ Other.Valid => SameInstant(t.Time, Other.Time)))
       /\ (t.Valid /\ Other.Valid /\ SameInstant(t.Time, Other.Time)
             /\ t.Time.loc # Other.Time.loc => ret.b)
  /\ op = "ExactEqual" =>
       /\ ret.b = (/\ t.Valid = Other.Valid
                   /\ (t.Valid /\ Other.Valid => t.Time = Other.Time))
       /\ (t.Valid /\ Other.Valid /\ SameInstant(t.Time, Other.Time)
             /\ t.Time.loc # Other.Time.loc => ~ret.b)
  /\ op \in {"Equal", "ExactEqual"} =>
       /\ (t.Valid # Other.Valid => ~ret.b)
       /\ (~t.Valid /\ ~Other.Valid => ret.b)

\* two null Timestamps with different Time fields, found Equal
C6_Witness ==
  op = "Equal" /\ ~t.Valid /\ ~Other.Valid /\ ~TimeEqual(t.Time, Other.Time) /\ ret.b

\* C7: MarshalText never fails and never emits "null": it emits nothing when
\* invalid and the decimal Time.Unix() when valid; UnmarshalText of the empty
\* input and of "null" both leave an invalid Timestamp, whose MarshalText is
\* the empty sequence.
C7_TextAsymmetry ==
  /\ MarshalText(t).err = Nil
  /\ MarshalText(t).bytes # nullBytes
  /\ MarshalText(t).bytes = IF t.Valid THEN FormatInt(Unix(t.Time)) ELSE <<>>
  /\ op = "MarshalText" => err = Nil /\ ret.bytes # nullBytes
  /\ op = "UnmarshalText" /\ arg.data \in NullTexts =>
       err = Nil /\ ~t.Valid /\ MarshalText(t).bytes = <<>>

\* the word null decoded, and the result encoded as the empty sequence
C7_Witness ==
  op = "UnmarshalText" /\ arg.data = nullBytes /\ ~t.Valid
    /\ MarshalText(t).bytes = <<>>

\* C8: after UnmarshalJSON of the decimal text of an integer n the call has
\* succeeded, the receiver is valid with Time.Unix() = n, and MarshalJSON
\* emits the same text again.
C8_IntegerDecodeOverwrites ==
  op = "UnmarshalJSON" =>
    \A n \in Int64 :
      arg.data = FormatInt(n)
        => /\ err = Nil
           /\ t.Valid
           /\ Unix(t.Time) = n
           /\ MarshalJSON(t).bytes = arg.data

\* the largest integer decoded: the stored seconds have wrapped around
C8_Witness ==
  op = "UnmarshalJSON" /\ arg.data = FormatInt(MaxInt64) /\ t.Valid
    /\ Unix(t.Time) = MaxInt64 /\ t.Time.sec < 0

\* C9 as stated: each null observer answers "null" exactly when Valid is
\* false, ValueOrZero included; a valid Timestamp yields its stored Time.
C9_ObserversIffInvalid ==
  /\ IsZero(t) <=> ~t.Valid
  /\ Ptr(t).isNil <=> ~t.Valid
  /\ Value(t).isNil <=> ~t.Valid
  /\ MarshalJSON(t).bytes = nullBytes <=> ~t.Valid
  /\ MarshalText(t).bytes = <<>> <=> ~t.Valid
  /\ TimeIsZero(ValueOrZero(t)) <=> ~t.Valid
  /\ t.Valid => /\ Ptr(t).tm = t.Time
                /\ Value(t).tm = t.Time
                /\ ValueOrZero(t) = t.Time
                /\ ~IsZero(t)

\* C9 as amended: IsZero, Ptr, Value, MarshalJSON and MarshalText answer
\* "null" exactly when Valid is false; ValueOrZero is the zero instant whenever
\* Valid is false (and also for a valid Timestamp that stores the zero
\* instant); a valid Timestamp yields its stored Time and is not IsZero.
C9_ObserversAgree ==
  /\ IsZero(t) <=> ~t.Valid
  /\ Ptr(t).isNil <=> ~t.Valid
  /\ Value(t).isNil <=> ~t.Valid
  /\ Value(t).err = Nil
  /\ MarshalJSON(t).bytes = nullBytes <=> ~t.Valid
  /\ MarshalText(t).bytes = <<>> <=> ~t.Valid
  /\ ~t.Valid => ValueOrZero(t) = ZeroTime
  /\ t.Valid => /\ Ptr(t).tm = t.Time
                /\ Value(t).tm = t.Time
                /\ ValueOrZero(t) = t.Time
                /\ ~IsZero(t)
  /\ op = "IsZero" => ret.b = ~t.Valid
  /\ op \in {"Ptr", "Value"} => ret.isNil = ~t.Valid
  /\ op = "ValueOrZero" => ret.tm = IF t.Valid THEN t.Time ELSE ZeroTime

\* a valid Timestamp that stores the zero instant, asked IsZero
C9_Witness ==
  op = "IsZero" /\ t.Valid /\ TimeIsZero(t.Time) /\ ~ret.b

\* C10: ExactEqual implies Equal, and both predicates are reflexive and
\* symmetric, on every pair of Timestamps.
C10_ExactEqualRefinesEqual ==
  /\ ExactEqual(t, Other) => Equal(t, Other)
  /\ op = "ExactEqual" /\ ret.b => Equal(t, Other)
  /\ Equal(t, t) /\ Equal(Other, Other)
  /\ ExactEqual(t, t) /\ ExactEqual(Other, Other)
  /\ Equal(t, Other) <=> Equal(Other, t)
  /\ ExactEqual(t, Other) <=> ExactEqual(Other, t)

\* two null Timestamps with different Time fields, found ExactEqual
C10_Witness ==
  op = "ExactEqual" /\ ~t.Valid /\ ~Other.Valid /\ t.Time # Other.Time /\ ret.b

====
